---- MODULE Spec2Model ----
(***************************************************************************)
(* Model of ai-git-commit.py: one run of ai_git_commit() against its       *)
(* environment (the git CLI, the key file, the chat-completion endpoint,   *)
(* the controlling terminal and the log files), and the read-only query    *)
(* get_ai_commit_status().                                                 *)
(*                                                                         *)
(* A Python str is a sequence of one-character strings.  A fixed literal   *)
(* of the program is kept as one element that holds the whole literal: it  *)
(* is non-empty text with no surrounding whitespace and no newline.        *)
(***************************************************************************)
EXTENDS Integers, Sequences, FiniteSets, TLC

VARIABLES
    pc,                 \* position in ai_git_commit
    exception,          \* the exception that left ai_git_commit uncaught
    index_diff,         \* what `git diff --staged` prints when it succeeds
    api_key_file,       \* API_KEY_PATH: whether it exists, and its content
    in_repo,            \* result of is_git_repo(): "unset", "true", "false"
    staged,             \* result of has_staged_changes()
    diff_output,        \* local diff_output of ai_git_commit
    request_log,        \* REQUEST_LOG: <<>> when absent, else <<its content>>
    request_log_writes, \* number of writes of REQUEST_LOG in this run
    response_log,       \* LAST_RESPONSE_LOG: <<>> when absent, else <<content>>
    http_calls,         \* number of requests.post calls in this run
    http,               \* what the endpoint did with the request
    suggestions,        \* local suggestions of ai_git_commit
    tty,                \* /dev/tty: "closed", "open", "failed"
    tty_error,          \* "none", or the error the terminal stream raised
    last_pass,          \* what the last pass of the selector loop read
    user_input,         \* local user_input of prompt_commit_message
    custom_message,     \* local custom_message of prompt_commit_message
    commit_message,     \* local commit_message of ai_git_commit
    commits,            \* the `git commit` invocations made, with exit codes
    cache,              \* CACHE_FILE: the lines appended
    status_marker,      \* STARTSHIP_STATUS_LOG: whether it exists, and its value
    now,                \* int(datetime.now().timestamp())
    status_label        \* last value returned by get_ai_commit_status()

vars == <<pc, exception, index_diff, api_key_file, in_repo, staged,
          diff_output, request_log, request_log_writes, response_log,
          http_calls, http, suggestions, tty, tty_error, last_pass,
          user_input, custom_message, commit_message, commits, cache,
          status_marker, now, status_label>>

files == <<request_log, response_log, cache, status_marker>>

----------------------------------------------------------------------------
(* Bounds *)

MaxDiffLen == 1
MaxContent == 3
MaxEntryLen == 1
MaxCustomLen == 1
MaxElapsed == 260000

----------------------------------------------------------------------------
(* Strings *)

RECURSIVE StringsUpTo(_, _)
StringsUpTo(chars, n) ==
    IF n = 0 THEN {<<>>}
    ELSE LET shorter == StringsUpTo(chars, n - 1)
         IN  shorter \cup {Append(s, c) : s \in shorter, c \in chars}

Whitespace == {" ", "\n"}

RECURSIVE lstrip(_)
lstrip(s) ==
    IF s # <<>> /\ Head(s) \in Whitespace THEN lstrip(Tail(s)) ELSE s

RECURSIVE rstrip(_)
rstrip(s) ==
    IF s # <<>> /\ s[Len(s)] \in Whitespace
    THEN rstrip(SubSeq(s, 1, Len(s) - 1))
    ELSE s

\* str.strip()
strip(s) == rstrip(lstrip(s))

\* str.split("\n"): always at least one piece, empty pieces are kept
RECURSIVE split(_)
split(s) ==
    IF \A i \in 1..Len(s) : s[i] # "\n" THEN <<s>>
    ELSE LET i == CHOOSE j \in 1..Len(s) :
                      s[j] = "\n" /\ \A k \in 1..(j - 1) : s[k] # "\n"
         IN  <<SubSeq(s, 1, i - 1)>> \o split(SubSeq(s, i + 1, Len(s)))

AsciiDigits == {"0", "1", "2", "3", "4", "5", "6", "7", "8", "9"}

\* characters str.isdigit() accepts that are not decimal digits
\* ("sup2" is SUPERSCRIPT TWO)
OtherDigits == {"sup2"}

\* str.isdigit()
isdigit(s) == s # <<>> /\ \A i \in 1..Len(s) : s[i] \in AsciiDigits \cup OtherDigits

DigitValue(c) ==
    CASE c = "0" -> 0 [] c = "1" -> 1 [] c = "2" -> 2 [] c = "3" -> 3
      [] c = "4" -> 4 [] c = "5" -> 5 [] c = "6" -> 6 [] c = "7" -> 7
      [] c = "8" -> 8 [] c = "9" -> 9

\* int(s) raises ValueError unless every character is a decimal digit
int_raises(s) == s = <<>> \/ \E i \in 1..Len(s) : s[i] \notin AsciiDigits

RECURSIVE int(_)
int(s) ==
    IF s = <<>> THEN 0
    ELSE 10 * int(SubSeq(s, 1, Len(s) - 1)) + DigitValue(s[Len(s)])

----------------------------------------------------------------------------
(* Literals of the program *)

MODEL == "gpt-3.5-turbo"

NoChangesMessages ==
    << <<"No changes to commit.">>, <<"Nothing modified.">>,
       <<"No staged changes.">> >>

FailureMessages ==
    << <<"Failed to generate commit messages. Please try again.">>,
       <<"Unable to fetch AI suggestions.">> >>

FallbackMessage == <<"Fallback: No input provided.">>

SecondsPerHour == 3600
SecondsPerDay == 86400

StatusPrefix == <<"robot", " ">>

----------------------------------------------------------------------------
(* The environment: what the git CLI, the key file, the endpoint and the   *)
(* operator can answer                                                     *)

DiffTexts == StringsUpTo({"d", "\n"}, MaxDiffLen)

KeyFiles ==
    {[exists |-> FALSE, content |-> <<>>]}
        \cup {[exists |-> TRUE, content |-> c] : c \in {<<>>, <<"k", "\n">>}}

\* exit statuses of a git subprocess: success, differences found, fatal
GitExitCodes == {0, 1, 128}

ContentTexts == StringsUpTo({"a", "\n"}, MaxContent)

\* bodies of an HTTP response, by their shape
BodyKinds ==
    {"not_json", "empty_object", "no_choices_key", "choices_empty",
     "choice_without_message", "content"}

NoBody == [kind |-> "no_choices_key", content |-> <<>>]

Bodies ==
    {[kind |-> k, content |-> <<>>] : k \in BodyKinds \ {"content"}}
        \cup {[kind |-> "content", content |-> c] : c \in ContentTexts}

NotCalled == [kind |-> "not_called", status |-> 0, body |-> NoBody]

\* outcomes of requests.post: an exception, or a response
HttpOutcomes ==
    {[kind |-> "transport_error", status |-> 0, body |-> NoBody]}
        \cup {[kind |-> "response", status |-> 500, body |-> NoBody]}
        \cup {[kind |-> "response", status |-> 200, body |-> b] : b \in Bodies}

ChoiceEntries ==
    StringsUpTo({"1", "2", "3", "4", "sup2", "a", " "}, MaxEntryLen)

CustomEntries == StringsUpTo({"a", " "}, MaxCustomLen)

\* what one input() call does: it raises EOFError, or returns a line
EndOfInput == [eof |-> TRUE, text |-> <<>>]

Typed(t) == [eof |-> FALSE, text |-> t]

\* what the operator's terminal can deliver to each input() call
ChoiceInputs == {EndOfInput} \cup {Typed(t) : t \in ChoiceEntries}

CustomInputs == {EndOfInput} \cup {Typed(t) : t \in CustomEntries}

NoException == [type |-> "none", where |-> "none"]

Raised(t, w) == [type |-> t, where |-> w]

----------------------------------------------------------------------------
(* The functions of the program, as operators on their inputs and on what  *)
(* the environment answers                                                 *)

\* subprocess.check_output(["git", "rev-parse", ...]) with exit status rc
is_git_repo(rc) == rc = 0

\* subprocess.check_call(["git", "diff", "--staged", "--quiet"])
has_staged_changes(rc) == rc # 0

\* subprocess.check_output(["git", "diff", "--staged"]): no try around it
get_diff(rc, text) ==
    IF rc = 0
    THEN [exc |-> NoException, value |-> text]
    ELSE [exc |-> Raised("CalledProcessError", "get_diff"), value |-> <<>>]

\* the key, or None when the file does not exist
load_api_key(file) ==
    IF file.exists
    THEN [none |-> FALSE, value |-> strip(file.content)]
    ELSE [none |-> TRUE, value |-> <<>>]

\* `not x` for a str or None
falsy_str(x) == x.none \/ x.value = <<>>

\* `if response:` for a parsed JSON object
truthy_json(body) == body.kind # "empty_object"

\* the response, None, or the exception that leaves the function;
\* called tells whether requests.post was reached
send_request_to_openai(file, outcome) ==
    IF falsy_str(load_api_key(file))
    THEN [exc |-> NoException, called |-> FALSE, none |-> TRUE,
          response |-> NoBody]
    ELSE IF outcome.kind = "transport_error"
    THEN [exc |-> Raised("ConnectionError", "send_request_to_openai"),
          called |-> TRUE, none |-> TRUE, response |-> NoBody]
    ELSE IF outcome.status = 200
    THEN IF outcome.body.kind = "not_json"
         THEN [exc |-> Raised("JSONDecodeError", "send_request_to_openai"),
               called |-> TRUE, none |-> TRUE, response |-> NoBody]
         ELSE [exc |-> NoException, called |-> TRUE, none |-> FALSE,
               response |-> outcome.body]
    ELSE [exc |-> NoException, called |-> TRUE, none |-> TRUE,
          response |-> NoBody]

\* the prompt get_commit_messages builds
prompt_for(diff) ==
    <<"Generate 3 commit messages for the following git diff:", "\n">>
        \o diff \o <<"\n", "Provide only the messages.">>

\* response.get("choices", [{}])[0].get("message", {}).get("content", "")
content_of(body) ==
    IF body.kind = "choices_empty"
    THEN [exc |-> Raised("IndexError", "get_commit_messages"), value |-> <<>>]
    ELSE IF body.kind = "content"
    THEN [exc |-> NoException, value |-> body.content]
    ELSE [exc |-> NoException, value |-> <<>>]

\* the suggestions, or the exception that leaves the function; logged tells
\* whether log_response ran
get_commit_messages(diff, file, outcome) ==
    LET sent == send_request_to_openai(file, outcome)
    IN  IF sent.exc # NoException
        THEN [exc |-> sent.exc, called |-> sent.called, logged |-> FALSE,
              response |-> NoBody, value |-> <<>>]
        ELSE IF ~sent.none /\ truthy_json(sent.response)
        THEN LET content == content_of(sent.response)
             IN  [exc |-> content.exc, called |-> sent.called,
                  logged |-> TRUE, response |-> sent.response,
                  value |-> IF content.exc = NoException
                            THEN split(strip(content.value))
                            ELSE <<>>]
        ELSE [exc |-> NoException, called |-> sent.called, logged |-> FALSE,
              response |-> NoBody,
              value |-> IF strip(diff) = <<>>
                        THEN NoChangesMessages
                        ELSE FailureMessages]

\* whether a pass that read in1 at line 163 goes on to the second input()
\* (line 172 or line 190)
asks_custom(S, in1) ==
    LET u == strip(in1.text)
    IN  /\ ~in1.eof
        /\ IF isdigit(u)
           THEN ~int_raises(u) /\ int(u) = Len(S) + 1
           ELSE u # <<>>

\* one pass of the `while True` of prompt_commit_message: in1 is what the
\* first input() does, in2 what the second one does when it is reached.
\* returned tells whether the pass ends the function.
prompt_pass(S, in1, in2, old_input, old_custom) ==
    LET u == strip(in1.text)
        c == strip(in2.text)
        result(ret, v, ui, cm, pass, err) ==
            [returned |-> ret, value |-> v, user_input |-> ui,
             custom_message |-> cm, pass |-> pass, tty_error |-> err]
    IN  IF in1.eof
        THEN result(TRUE, FallbackMessage, old_input, old_custom, "choice",
                    "EOFError")
        ELSE IF asks_custom(S, in1)
        THEN IF in2.eof
             THEN result(TRUE, FallbackMessage, u, old_custom, "custom",
                         "EOFError")
             ELSE IF c # <<>>
             THEN result(TRUE, c, u, c, "custom", "none")
             ELSE result(FALSE, <<>>, u, c, "custom", "none")
        ELSE IF isdigit(u)
        THEN IF int_raises(u)
             THEN result(TRUE, FallbackMessage, u, old_custom, "choice",
                         "none")
             ELSE IF 1 <= int(u) /\ int(u) <= Len(S)
             THEN result(TRUE, S[int(u)], u, old_custom, "choice", "none")
             ELSE result(FALSE, <<>>, u, old_custom, "choice", "none")
        ELSE result(FALSE, <<>>, u, old_custom, "choice", "none")

\* exit status of `git commit -m message`: git aborts a commit whose message
\* is blank; any other commit can succeed or fail
commit_exit_codes(message) ==
    IF strip(message) = <<>> THEN {1} ELSE {0, 1}

\* the line cache_commit_message appends
cache_line(diff, message) == diff \o <<"|">> \o message \o <<"\n">>

\* str(n) for a natural number
RECURSIVE str(_)
str(n) ==
    LET digit == CHOOSE c \in AsciiDigits : DigitValue(c) = n % 10
    IN  IF n < 10 THEN <<digit>> ELSE Append(str(n \div 10), digit)

\* get_ai_commit_status with <= for < at the one-hour threshold
get_ai_commit_status_inclusive(marker, clock) ==
    IF marker.exists
    THEN LET time_diff == clock - marker.last_used
         IN  IF time_diff <= SecondsPerHour
             THEN StatusPrefix \o <<"Ready">>
             ELSE IF time_diff < SecondsPerDay
             THEN StatusPrefix \o str(time_diff \div SecondsPerHour) \o <<"h">>
             ELSE StatusPrefix \o str(time_diff \div SecondsPerDay) \o <<"d">>
    ELSE StatusPrefix \o <<"Not used">>

get_ai_commit_status(marker, clock) ==
    IF marker.exists
    THEN LET time_diff == clock - marker.last_used
         IN  IF time_diff < SecondsPerHour
             THEN StatusPrefix \o <<"Ready">>
             ELSE IF time_diff < SecondsPerDay
             THEN StatusPrefix \o str(time_diff \div SecondsPerHour) \o <<"h">>
             ELSE StatusPrefix \o str(time_diff \div SecondsPerDay) \o <<"d">>
    ELSE StatusPrefix \o <<"Not used">>

----------------------------------------------------------------------------
(* Initial states *)

NoMarker == [exists |-> FALSE, last_used |-> 0]

Marker(t) == [exists |-> TRUE, last_used |-> t]

\* the locals and the counters of a run that has not started
RunNotStarted ==
    /\ pc = "start"
    /\ exception = NoException
    /\ in_repo = "unset"
    /\ staged = "unset"
    /\ diff_output = <<>>
    /\ request_log = <<>>
    /\ request_log_writes = 0
    /\ response_log = <<>>
    /\ http_calls = 0
    /\ http = NotCalled
    /\ suggestions = <<>>
    /\ tty = "closed"
    /\ tty_error = "none"
    /\ last_pass = "none"
    /\ user_input = <<>>
    /\ custom_message = <<>>
    /\ commit_message = <<>>
    /\ commits = <<>>
    /\ cache = <<>>
    /\ status_label = <<>>

Init ==
    /\ RunNotStarted
    /\ index_diff \in DiffTexts
    /\ api_key_file \in KeyFiles
    /\ status_marker = NoMarker
    /\ now = SecondsPerHour

InitStatus ==
    /\ RunNotStarted
    /\ index_diff = <<>>
    /\ api_key_file = [exists |-> FALSE, content |-> <<>>]
    /\ status_marker \in {NoMarker, Marker(0)}
    /\ now \in 0..MaxElapsed

----------------------------------------------------------------------------
(* The steps of ai_git_commit *)

Return == pc' = "done" /\ exception' = NoException

Raise(e) == pc' = "raised" /\ exception' = e

\* lines 248-250
CheckRepo ==
    /\ pc = "start"
    /\ \E rc \in {0, 128} :
        /\ in_repo' = IF is_git_repo(rc) THEN "true" ELSE "false"
        /\ IF is_git_repo(rc)
           THEN pc' = "check_staged" /\ exception' = NoException
           ELSE Return
    /\ UNCHANGED <<index_diff, api_key_file, staged, diff_output, request_log,
                   request_log_writes, response_log, http_calls, http,
                   suggestions, tty, tty_error, last_pass, user_input,
                   custom_message, commit_message, commits, cache,
                   status_marker, now, status_label>>

\* CheckStaged without the early return of lines 253-254
CheckStagedNoReturn ==
    /\ pc = "check_staged"
    /\ \E rc \in GitExitCodes :
        staged' = IF has_staged_changes(rc) THEN "true" ELSE "false"
    /\ pc' = "get_diff"
    /\ exception' = NoException
    /\ UNCHANGED <<index_diff, api_key_file, in_repo, diff_output, request_log,
                   request_log_writes, response_log, http_calls, http,
                   suggestions, tty, tty_error, last_pass, user_input,
                   custom_message, commit_message, commits, cache,
                   status_marker, now, status_label>>

\* lines 252-254
CheckStaged ==
    /\ pc = "check_staged"
    /\ \E rc \in GitExitCodes :
        /\ staged' = IF has_staged_changes(rc) THEN "true" ELSE "false"
        /\ IF has_staged_changes(rc)
           THEN pc' = "get_diff" /\ exception' = NoException
           ELSE Return
    /\ UNCHANGED <<index_diff, api_key_file, in_repo, diff_output, request_log,
                   request_log_writes, response_log, http_calls, http,
                   suggestions, tty, tty_error, last_pass, user_input,
                   custom_message, commit_message, commits, cache,
                   status_marker, now, status_label>>

\* line 256
ReadDiff ==
    /\ pc = "get_diff"
    /\ \E rc \in {0, 128} :
        LET got == get_diff(rc, index_diff)
        IN  IF got.exc = NoException
            THEN /\ diff_output' = got.value
                 /\ pc' = "get_messages"
                 /\ exception' = NoException
            ELSE /\ Raise(got.exc)
                 /\ UNCHANGED diff_output
    /\ UNCHANGED <<index_diff, api_key_file, in_repo, staged, request_log,
                   request_log_writes, response_log, http_calls, http,
                   suggestions, tty, tty_error, last_pass, user_input,
                   custom_message, commit_message, commits, cache,
                   status_marker, now, status_label>>

\* lines 257-261, with log_request and log_response
RequestSuggestions ==
    /\ pc = "get_messages"
    /\ \E outcome \in HttpOutcomes :
        LET got == get_commit_messages(diff_output, api_key_file, outcome)
        IN  /\ request_log' =
                  <<[model |-> MODEL, prompt |-> prompt_for(diff_output)]>>
            /\ request_log_writes' = request_log_writes + 1
            /\ http_calls' = IF got.called THEN http_calls + 1 ELSE http_calls
            /\ http' = IF got.called THEN outcome ELSE NotCalled
            /\ response_log' =
                  IF got.logged THEN <<got.response>> ELSE response_log
            /\ IF got.exc # NoException
               THEN Raise(got.exc) /\ UNCHANGED suggestions
               ELSE /\ suggestions' = got.value
                    /\ IF got.value = <<>>
                       THEN Return
                       ELSE pc' = "prompt" /\ exception' = NoException
    /\ UNCHANGED <<index_diff, api_key_file, in_repo, staged, diff_output,
                   tty, tty_error, last_pass, user_input, custom_message,
                   commit_message, commits, cache, status_marker, now,
                   status_label>>

\* lines 148-158: the two open("/dev/tty") are outside the try
OpenTerminal ==
    /\ pc = "prompt"
    /\ \E ok \in BOOLEAN :
        IF ok
        THEN /\ tty' = "open"
             /\ tty_error' = "none"
             /\ pc' = "select"
             /\ exception' = NoException
        ELSE /\ tty' = "failed"
             /\ tty_error' = "OSError"
             /\ Raise(Raised("OSError", "prompt_commit_message"))
    /\ UNCHANGED <<index_diff, api_key_file, in_repo, staged, diff_output,
                   request_log, request_log_writes, response_log, http_calls,
                   http, suggestions, last_pass, user_input, custom_message,
                   commit_message, commits, cache, status_marker, now,
                   status_label>>

\* lines 160-199 and the assignment of line 263
SelectorPass ==
    /\ pc = "select"
    /\ \E in1 \in ChoiceInputs :
        \E in2 \in IF asks_custom(suggestions, in1)
                   THEN CustomInputs
                   ELSE {EndOfInput} :
        LET pass == prompt_pass(suggestions, in1, in2,
                                user_input, custom_message)
        IN  /\ user_input' = pass.user_input
            /\ custom_message' = pass.custom_message
            /\ last_pass' = pass.pass
            /\ tty_error' = pass.tty_error
            /\ IF pass.returned
               THEN commit_message' = pass.value /\ pc' = "commit"
               ELSE UNCHANGED commit_message /\ pc' = "select"
    /\ UNCHANGED <<exception, index_diff, api_key_file, in_repo, staged,
                   diff_output, request_log, request_log_writes, response_log,
                   http_calls, http, suggestions, tty, commits, cache,
                   status_marker, now, status_label>>

\* lines 264, 203-204: subprocess.run without check, the exit status is dropped
CommitChanges ==
    /\ pc = "commit"
    /\ \E rc \in commit_exit_codes(commit_message) :
        commits' = Append(commits,
                          [message |-> commit_message, returncode |-> rc])
    /\ pc' = "cache"
    /\ UNCHANGED <<exception, index_diff, api_key_file, in_repo, staged,
                   diff_output, request_log, request_log_writes, response_log,
                   http_calls, http, suggestions, tty, tty_error, last_pass,
                   user_input, custom_message, commit_message, cache,
                   status_marker, now, status_label>>

\* lines 265, 208-210
CacheCommitMessage ==
    /\ pc = "cache"
    /\ cache' = Append(cache, cache_line(diff_output, commit_message))
    /\ pc' = "done"
    /\ UNCHANGED <<exception, index_diff, api_key_file, in_repo, staged,
                   diff_output, request_log, request_log_writes, response_log,
                   http_calls, http, suggestions, tty, tty_error, last_pass,
                   user_input, custom_message, commit_message, commits,
                   status_marker, now, status_label>>

\* lines 230-243
QueryStatus ==
    /\ status_label' = get_ai_commit_status(status_marker, now)
    /\ UNCHANGED <<pc, exception, index_diff, api_key_file, in_repo, staged,
                   diff_output, request_log, request_log_writes, response_log,
                   http_calls, http, suggestions, tty, tty_error, last_pass,
                   user_input, custom_message, commit_message, commits, cache,
                   status_marker, now>>

Next ==
    \/ CheckRepo
    \/ CheckStaged
    \/ ReadDiff
    \/ RequestSuggestions
    \/ OpenTerminal
    \/ SelectorPass
    \/ CommitChanges
    \/ CacheCommitMessage

Spec == Init /\ [][Next]_vars

NextStatus == QueryStatus

SpecStatus == InitStatus /\ [][NextStatus]_vars

TypeOK ==
    /\ pc \in {"start", "check_staged", "get_diff", "get_messages", "prompt",
               "select", "commit", "cache", "done", "raised"}
    /\ in_repo \in {"unset", "true", "false"}
    /\ staged \in {"unset", "true", "false"}
    /\ http_calls \in 0..1
    /\ request_log_writes \in 0..1
    /\ Len(commits) <= 1
    /\ Len(cache) <= 1

----------------------------------------------------------------------------
(* Properties *)

\* get_commit_messages has been called in this run
Requested == request_log_writes > 0

\* prompt_commit_message has returned to ai_git_commit
Selected == pc \in {"commit", "cache", "done"}

\* a decimal number in ASCII digits
IsNumber(s) == s # <<>> /\ \A i \in 1..Len(s) : s[i] \in AsciiDigits

\* C1: every `git commit` the run executes has a non-empty message, whatever
\* the endpoint answered and whatever the operator entered.
CommitMessageNonEmpty ==
    \A i \in 1..Len(commits) : commits[i].message # <<>>

\* C2: once is_git_repo() or has_staged_changes() has answered false, the run
\* has returned and has written no request log, made no HTTP call, opened no
\* selector prompt, made no commit and appended nothing to the cache.
NoStagedShortCircuits ==
    (in_repo = "false" \/ staged = "false") =>
        /\ pc = "done"
        /\ exception = NoException
        /\ request_log_writes = 0
        /\ request_log = <<>>
        /\ http_calls = 0
        /\ tty = "closed"
        /\ last_pass = "none"
        /\ commits = <<>>
        /\ cache = <<>>

\* C2 witness: a run inside a repository that ended on
\* has_staged_changes() = False.
NoStagedReturned ==
    /\ in_repo = "true"
    /\ staged = "false"
    /\ pc = "done"

\* C3: for an empty or whitespace-only diff, get_commit_messages returns the
\* three "no changes" placeholders and makes no call to the endpoint.
EmptyDiffPlaceholdersOffline ==
    (Requested /\ strip(diff_output) = <<>>) =>
        /\ exception = NoException
        /\ suggestions = NoChangesMessages
        /\ http_calls = 0

\* the request of this run failed: no usable credential, a transport-level
\* failure, a status other than 200, or a body that is not JSON
CallFailed ==
    \/ falsy_str(load_api_key(api_key_file))
    \/ http.kind = "transport_error"
    \/ http.kind = "response" /\ http.status # 200
    \/ http.kind = "response" /\ http.body.kind = "not_json"

\* C4: for a non-empty diff, a missing credential or a failed call makes
\* get_commit_messages return the two "try again" placeholders normally.
FailurePlaceholdersReturned ==
    (Requested /\ strip(diff_output) # <<>> /\ CallFailed) =>
        /\ exception = NoException
        /\ suggestions = FailureMessages

\* C5: without a terminal error, a pass of the selector ends as the entry it
\* read decides: a number k in 1..len(S) returns S[k-1]; the number len(S)+1
\* or a non-numeric non-empty entry asks for free text and returns it when
\* it is non-empty; an empty entry, an out-of-range number or an empty free
\* text re-prompts.
SelectorFollowsEntry ==
    (last_pass # "none" /\ tty_error = "none") =>
        LET n == Len(suggestions)
            u == user_input
        IN  IF IsNumber(u) /\ 1 <= int(u) /\ int(u) <= n
            THEN /\ Selected
                 /\ last_pass = "choice"
                 /\ commit_message = suggestions[int(u)]
            ELSE IF (IsNumber(u) /\ int(u) = n + 1) \/ (~IsNumber(u) /\ u # <<>>)
            THEN /\ last_pass = "custom"
                 /\ IF custom_message # <<>>
                    THEN Selected /\ commit_message = custom_message
                    ELSE pc = "select"
            ELSE pc = "select"

\* C6: the cache holds one "<diff>|<message>" line per successful commit of
\* the run and nothing else; a run whose commit failed appended nothing.
CacheOnlyAfterSuccessfulCommit ==
    /\ \A i \in 1..Len(cache) :
           \E j \in 1..Len(commits) :
               /\ commits[j].returncode = 0
               /\ cache[i] = cache_line(diff_output, commits[j].message)
    /\ pc = "done" =>
           Len(cache) =
               Cardinality({j \in 1..Len(commits) : commits[j].returncode = 0})

\* C7: once a model request has been attempted, the status marker holds the
\* current timestamp and get_ai_commit_status no longer answers "Not used".
MarkerWrittenOnRequest ==
    Requested =>
        /\ status_marker = Marker(now)
        /\ get_ai_commit_status(status_marker, now)
               # StatusPrefix \o <<"Not used">>

\* C8: no failure of a git invocation made by is_git_repo, has_staged_changes
\* or get_diff leaves that operation as an exception.
InspectorNeverRaises ==
    exception.where \notin {"is_git_repo", "has_staged_changes", "get_diff"}

\* C9: the selector returns the fallback literal exactly when an error of the
\* terminal stream interrupted it: every such error ends the selector with
\* the fallback and no exception, and no operator entry produces it.
FallbackIffTerminalError ==
    /\ tty_error # "none" =>
           /\ exception = NoException
           /\ Selected
           /\ commit_message = FallbackMessage
    /\ (Selected /\ commit_message = FallbackMessage) => tty_error # "none"

\* the label the thresholds of the status query give for an elapsed time
LabelFor(d) ==
    IF d < 3600 THEN <<"Ready">>
    ELSE IF d < 86400 THEN str(d \div 3600) \o <<"h">>
    ELSE str(d \div 86400) \o <<"d">>

StatusLabelRight ==
    status_label # <<>> =>
        status_label =
            StatusPrefix \o
                (IF status_marker.exists
                 THEN LabelFor(now - status_marker.last_used)
                 ELSE <<"Not used">>)

====
